---- MODULE Spec2Model ----
(***************************************************************************)
(* Report generation core of the raster printer (Joystick.c).              *)
(*                                                                         *)
(* One step of the model is one call of GetNextReport, made by HID_Task    *)
(* each time the host is ready to take an IN report.  The build flags      *)
(* (ZIG_ZAG_PRINTING, hence ECHOES, and POLLING_MS) and the linked bitmap  *)
(* are fixed when the run starts and never change.                         *)
(*                                                                         *)
(* The values of the HAT_*, SWITCH_* and STICK_* names are declared in     *)
(* Joystick.h; Joystick.c only compares and ORs them, so they are kept     *)
(* symbolic: a HAT or stick value is its name, and the Button bitmask is   *)
(* the set of the names of its set bits (|= is set union).                 *)
(***************************************************************************)
EXTENDS Integers, Sequences, FiniteSets, TLC

VARIABLES
    ZIG_ZAG_PRINTING,  \* build flag: #ifdef ZIG_ZAG_PRINTING
    ECHOES,            \* #define ECHOES
    POLLING_MS,        \* #define POLLING_MS
    image,             \* which bitmap is linked as image_data
    state,             \* State_t state
    echoes,            \* int echoes
    last_report,       \* USB_JoystickReport_Input_t last_report
    command_count,     \* int command_count
    xpos,              \* int xpos
    ypos,              \* int ypos
    ReportData,        \* the report the latest call handed back
    kind,              \* history: the path the latest call took
    calls,             \* history: calls made while the run was not yet DONE
    replays,           \* history: echo replays since the latest stored report
    covered,           \* history: cells of the sweep order inked so far
    img_read,          \* history: index of image_data the latest call read
    pair,              \* history: the zig-zag row pair under way
    pair_last,         \* history: the zig-zag row pair completed last
    entered            \* history: value of calls when the phase was entered

config == <<ZIG_ZAG_PRINTING, ECHOES, POLLING_MS, image>>
vars == <<ZIG_ZAG_PRINTING, ECHOES, POLLING_MS, image, state, echoes,
          last_report, command_count, xpos, ypos, ReportData, kind, calls,
          replays, covered, img_read, pair, pair_last, entered>>

----------------------------------------------------------------------------
(* Bounds of the model *)

\* bitmaps 0..MaxImage are tried
MaxImage == 1
\* echo factors 1..MaxEchoes are tried where the build is left open
MaxEchoes == 2
\* a poll interval so long that every ms_2_count is 0
LongPolling == 4001

----------------------------------------------------------------------------
(* Program constants *)

XMax == 319
YMax == 119
RowBytes == 40
ZigZagLen == 642
ZigZagStop == 640
ZigZagDownA == 639
ZigZagDownB == 641
EchoesZigZag == 4
EchoesSimple == 2
MinPolling == 8

SYNC_CONTROLLER == "SYNC_CONTROLLER"
SYNC_POSITION == "SYNC_POSITION"
ZIG_ZAG == "ZIG_ZAG"
MOVE == "MOVE"
STOP == "STOP"
DONE == "DONE"
State_t == {SYNC_CONTROLLER, SYNC_POSITION, ZIG_ZAG, MOVE, STOP, DONE}

HAT_TOP == "HAT_TOP"
HAT_TOP_RIGHT == "HAT_TOP_RIGHT"
HAT_RIGHT == "HAT_RIGHT"
HAT_BOTTOM_RIGHT == "HAT_BOTTOM_RIGHT"
HAT_BOTTOM == "HAT_BOTTOM"
HAT_BOTTOM_LEFT == "HAT_BOTTOM_LEFT"
HAT_LEFT == "HAT_LEFT"
HAT_TOP_LEFT == "HAT_TOP_LEFT"
HAT_CENTER == "HAT_CENTER"

SWITCH_A == "SWITCH_A"
SWITCH_L == "SWITCH_L"
SWITCH_R == "SWITCH_R"
SWITCH_MINUS == "SWITCH_MINUS"

STICK_MIN == "STICK_MIN"
STICK_CENTER == "STICK_CENTER"

\* #define max(a, b) (a > b ? a : b)
max(a, b) == IF a > b THEN a ELSE b

\* #define ms_2_count(ms) (ms / ECHOES / (max(POLLING_MS, 8) / 8 * 8))
ms_2_count(ms) == (ms \div ECHOES) \div ((max(POLLING_MS, MinPolling) \div 8) * 8)

----------------------------------------------------------------------------
(* Reports *)

\* the right stick left at the memset value
EmptyReport_RightStick ==
    [Button |-> {}, HAT |-> HAT_CENTER, LX |-> STICK_CENTER,
     LY |-> STICK_CENTER, RX |-> STICK_MIN, RY |-> STICK_MIN]

\* memset(ReportData, 0, ...) followed by the five centring assignments
EmptyReport ==
    [Button |-> {}, HAT |-> HAT_CENTER, LX |-> STICK_CENTER,
     LY |-> STICK_CENTER, RX |-> STICK_CENTER, RY |-> STICK_CENTER]

\* last_report has static storage: every byte is 0 until the first memcpy
\* (0 is HAT_TOP and STICK_MIN in Joystick.h); it is not read before that.
ZeroReport ==
    [Button |-> {}, HAT |-> HAT_TOP, LX |-> STICK_MIN, LY |-> STICK_MIN,
     RX |-> STICK_MIN, RY |-> STICK_MIN]

----------------------------------------------------------------------------
(* The bitmap *)

\* image_data[i] of bitmap img, a byte.  Bitmap 0 is blank; the others are
\* fixed byte patterns.
image_data(img, i) == (img * (37 * i + 11 + (i \div RowBytes))) % 256

\* image_data[(xpos / 8) + (ypos * 40)]
ImageIndex(x, y) == (x \div 8) + (y * RowBytes)

\* the bits of a byte taken from the top
BitSet_Msb(byte, x) == (byte \div (2 ^ (7 - (x % 8)))) % 2 = 1

\* byte & 1 << (xpos % 8)
BitSet(byte, x) == (byte \div (2 ^ (x % 8))) % 2 = 1

\* xpos >= 0 && xpos <= 319 && ypos >= 0 && ypos <= 119
InBounds(x, y) == x >= 0 /\ x <= XMax /\ y >= 0 /\ y <= YMax

\* state != SYNC_CONTROLLER && state != SYNC_POSITION && state != DONE
InkingPhase(st) == st # SYNC_CONTROLLER /\ st # SYNC_POSITION /\ st # DONE

Pixel(img, x, y) == BitSet(image_data(img, ImageIndex(x, y)), x)

----------------------------------------------------------------------------
(* complete_zig_zag_pattern *)

\* the direction taken from the row alone, not from the row pair
ZigZagMove_Row(y) == IF y % 4 < 1 THEN HAT_RIGHT ELSE HAT_LEFT

\* if (ypos % 4 < 2) move = HAT_RIGHT; else move = HAT_LEFT;
ZigZagMove(y) == IF y % 4 < 2 THEN HAT_RIGHT ELSE HAT_LEFT

\* the stop of tick 640 left out
ZigZagHat_NoStop(cc, y) ==
    IF cc = ZigZagDownA \/ cc = ZigZagDownB THEN HAT_BOTTOM
    ELSE IF cc % 2 = 1 THEN ZigZagMove(y)
    ELSE IF cc % 4 = 0 THEN HAT_BOTTOM
    ELSE HAT_TOP

\* the HAT written when command_count < 642
ZigZagHat(cc, y) ==
    LET first == IF cc % 2 = 1 THEN ZigZagMove(y)
                 ELSE IF cc % 4 = 0 THEN HAT_BOTTOM
                 ELSE HAT_TOP
    IN  IF cc = ZigZagStop THEN HAT_CENTER
        ELSE IF cc = ZigZagDownA \/ cc = ZigZagDownB THEN HAT_BOTTOM
        ELSE first

\* the whole function: the HAT it leaves in the report and command_count
complete_zig_zag_pattern(cc, y) ==
    IF cc < ZigZagLen
    THEN [HAT |-> ZigZagHat(cc, y), command_count |-> cc + 1]
    ELSE [HAT |-> HAT_CENTER, command_count |-> 0]

----------------------------------------------------------------------------
(* The switch of GetNextReport, one operator per case.  Each gives the     *)
(* report as the case leaves it and the new state, command_count, cursor.  *)

Result(rep, st, cc, x, y) ==
    [report |-> rep, state |-> st, command_count |-> cc, xpos |-> x, ypos |-> y]

\* the confirm button pressed on the last tick but one
SyncControllerButtons_Early(cc) ==
    IF cc = ms_2_count(500) \/ cc = ms_2_count(1000) THEN {SWITCH_L, SWITCH_R}
    ELSE IF cc = ms_2_count(1500) \/ cc = ms_2_count(2000) - 1 THEN {SWITCH_A}
    ELSE {}

SyncControllerButtons(cc) ==
    IF cc = ms_2_count(500) \/ cc = ms_2_count(1000) THEN {SWITCH_L, SWITCH_R}
    ELSE IF cc = ms_2_count(1500) \/ cc = ms_2_count(2000) THEN {SWITCH_A}
    ELSE {}

CaseSyncController ==
    IF command_count > ms_2_count(2000)
    THEN Result(EmptyReport, SYNC_POSITION, 0, xpos, ypos)
    ELSE Result([EmptyReport EXCEPT !.Button = SyncControllerButtons(command_count)],
                SYNC_CONTROLLER, command_count + 1, xpos, ypos)

\* the second clear mark left out
SyncPositionButtons_Once(cc) ==
    IF cc = ms_2_count(1500) THEN {SWITCH_MINUS} ELSE {}

SyncPositionButtons(cc) ==
    IF cc = ms_2_count(1500) \/ cc = ms_2_count(3000) THEN {SWITCH_MINUS} ELSE {}

\* the #ifdef dropped: every build starts the simple sweep
FirstPayloadState_Simple == STOP

\* #ifdef ZIG_ZAG_PRINTING state = ZIG_ZAG; #else state = STOP;
FirstPayloadState == IF ZIG_ZAG_PRINTING THEN ZIG_ZAG ELSE STOP

CaseSyncPosition ==
    IF command_count > ms_2_count(4000)
    THEN Result(EmptyReport, FirstPayloadState, 0, 0, 0)
    ELSE Result([EmptyReport EXCEPT !.LX = STICK_MIN, !.LY = STICK_MIN,
                                    !.Button = SyncPositionButtons(command_count)],
                SYNC_POSITION, command_count + 1, xpos, ypos)

\* the run ended one row late
ZigZagNext_Late(y) == IF y > YMax + 1 THEN DONE ELSE ZIG_ZAG

\* the comparison turned round
ZigZagNext_Inverted(y) == IF y < YMax THEN DONE ELSE ZIG_ZAG

\* if (ypos > 119) state = DONE;   (case ZIG_ZAG)
ZigZagNext(y) == IF y > YMax THEN DONE ELSE ZIG_ZAG

CaseZigZag ==
    LET z == complete_zig_zag_pattern(command_count, ypos)
    IN  Result([EmptyReport EXCEPT !.HAT = z.HAT], ZigZagNext(ypos),
               z.command_count, xpos, ypos)

\* the row end tested one column early on even rows
MoveHat_ShortRow(x, y) ==
    IF (x = 0 /\ y % 2 = 1) \/ (x = XMax - 1 /\ y % 2 = 0) THEN HAT_BOTTOM
    ELSE IF y % 2 = 0 THEN HAT_RIGHT
    ELSE HAT_LEFT

\* the right-hand row end tested one column late
MoveHat_LongRow(x, y) ==
    IF (x = 0 /\ y % 2 = 1) \/ (x = XMax + 1 /\ y % 2 = 0) THEN HAT_BOTTOM
    ELSE IF y % 2 = 0 THEN HAT_RIGHT
    ELSE HAT_LEFT

MoveHat(x, y) ==
    IF (x = 0 /\ y % 2 = 1) \/ (x = XMax /\ y % 2 = 0) THEN HAT_BOTTOM
    ELSE IF y % 2 = 0 THEN HAT_RIGHT
    ELSE HAT_LEFT

\* state = STOP left out
CaseMove_NoStop ==
    Result([EmptyReport EXCEPT !.HAT = MoveHat(xpos, ypos)], MOVE,
           command_count, xpos, ypos)

CaseMove ==
    Result([EmptyReport EXCEPT !.HAT = MoveHat(xpos, ypos)], STOP,
           command_count, xpos, ypos)

\* state = MOVE; if (ypos > 119) state = DONE;   (case STOP)
StopNext(y) == IF y > YMax THEN DONE ELSE MOVE

CaseStop == Result(EmptyReport, StopNext(ypos), command_count, xpos, ypos)

Switch ==
    CASE state = SYNC_CONTROLLER -> CaseSyncController
      [] state = SYNC_POSITION -> CaseSyncPosition
      [] state = ZIG_ZAG -> CaseZigZag
      [] state = MOVE -> CaseMove
      [] state = STOP -> CaseStop

----------------------------------------------------------------------------
(* Position update and inking *)

\* the xpos-- left out
XAfter_NoLeft(hat, x) ==
    IF hat \in {HAT_TOP_RIGHT, HAT_RIGHT, HAT_BOTTOM_RIGHT} THEN x + 1 ELSE x

XAfter(hat, x) ==
    LET x1 == IF hat \in {HAT_TOP_RIGHT, HAT_RIGHT, HAT_BOTTOM_RIGHT} THEN x + 1 ELSE x
    IN  IF hat \in {HAT_BOTTOM_LEFT, HAT_LEFT, HAT_TOP_LEFT} THEN x1 - 1 ELSE x1

YAfter(hat, y) ==
    LET y1 == IF hat \in {HAT_TOP_LEFT, HAT_TOP, HAT_TOP_RIGHT} THEN y - 1 ELSE y
    IN  IF hat \in {HAT_BOTTOM_RIGHT, HAT_BOTTOM, HAT_BOTTOM_LEFT} THEN y1 + 1 ELSE y1

\* image_data is read exactly when both outer ifs of the inking pass
ReadsImage(st, x, y) == InkingPhase(st) /\ InBounds(x, y)

NoRead == 0 - 1

Inked(st, x, y) == ReadsImage(st, x, y) /\ Pixel(image, x, y)

\* one replay too few
ArmEchoes_Short == ECHOES - 1

\* echoes = ECHOES;
ArmEchoes == ECHOES

----------------------------------------------------------------------------
(* The order in which each sweep first reaches the cells; covered counts   *)
(* how long a prefix of it has been inked.                                 *)

Width == XMax + 1
Height == YMax + 1
NumCells == Width * Height

\* simple sweep: row by row, left to right on even rows
SimpleCell(n) ==
    LET y == n \div Width
        k == n % Width
    IN  <<IF y % 2 = 0 THEN k ELSE XMax - k, y>>

\* zig-zag sweep: two rows at a time, column by column
ZigZagCell(n) ==
    LET p == n \div (2 * Width)
        c == n % (2 * Width)
        k == c \div 2
        r == IF k % 2 = 0 THEN c % 2 ELSE 1 - (c % 2)
    IN  <<IF p % 2 = 0 THEN k ELSE XMax - k, 2 * p + r>>

SweepCell(n) == IF ZIG_ZAG_PRINTING THEN ZigZagCell(n) ELSE SimpleCell(n)

----------------------------------------------------------------------------
(* Row pairs of the zig-zag sweep.  A row pair starts with the fresh       *)
(* report computed at command_count 0; pair holds the ypos it started at   *)
(* and counts the fresh reports computed in ZIG_ZAG since then, that one   *)
(* included, split into moves (a direction in HAT) and stops (HAT_CENTER). *)

NoPair == [y0 |-> 0, fresh |-> 0, moves |-> 0, stops |-> 0]

PairAfter(hat) ==
    LET base == IF command_count = 0 THEN [NoPair EXCEPT !.y0 = ypos] ELSE pair
    IN  [base EXCEPT !.fresh = @ + 1,
                     !.moves = IF hat # HAT_CENTER THEN @ + 1 ELSE @,
                     !.stops = IF hat = HAT_CENTER THEN @ + 1 ELSE @]

----------------------------------------------------------------------------
(* GetNextReport *)

\* if (echoes > 0) { memcpy(ReportData, &last_report, ...); echoes--; return; }
\* the memcpy from last_report left out: the empty report goes out
EchoReplay_Stale ==
    /\ echoes > 0
    /\ ReportData' = EmptyReport
    /\ echoes' = echoes - 1
    /\ kind' = "echo"
    /\ calls' = IF state = DONE THEN calls ELSE calls + 1
    /\ replays' = replays + 1
    /\ img_read' = NoRead
    /\ UNCHANGED <<config, state, last_report, command_count, xpos, ypos, covered,
                   pair, pair_last, entered>>

EchoReplay ==
    /\ echoes > 0
    /\ ReportData' = last_report
    /\ echoes' = echoes - 1
    /\ kind' = "echo"
    /\ calls' = IF state = DONE THEN calls ELSE calls + 1
    /\ replays' = replays + 1
    /\ img_read' = NoRead
    /\ UNCHANGED <<config, state, last_report, command_count, xpos, ypos, covered,
                   pair, pair_last, entered>>

\* case DONE: return;   the empty report goes out, nothing is stored
DoneReport ==
    /\ echoes = 0
    /\ state = DONE
    /\ ReportData' = EmptyReport
    /\ kind' = "done"
    /\ img_read' = NoRead
    /\ UNCHANGED <<config, state, echoes, last_report, command_count, xpos, ypos,
                   calls, replays, covered, pair, pair_last, entered>>

\* every other case: switch, position update, inking, store and arm the echoes
FreshReport ==
    /\ echoes = 0
    /\ state # DONE
    /\ LET r == Switch
           x == XAfter(r.report.HAT, r.xpos)
           y == YAfter(r.report.HAT, r.ypos)
           rep == IF Inked(r.state, x, y)
                  THEN [r.report EXCEPT !.Button = @ \cup {SWITCH_A}]
                  ELSE r.report
       IN  /\ state' = r.state
           /\ command_count' = r.command_count
           /\ xpos' = x
           /\ ypos' = y
           /\ ReportData' = rep
           /\ last_report' = rep
           /\ img_read' = IF ReadsImage(r.state, x, y) THEN ImageIndex(x, y) ELSE NoRead
           /\ covered' = IF /\ ReadsImage(r.state, x, y)
                            /\ covered < NumCells
                            /\ <<x, y>> = SweepCell(covered)
                         THEN covered + 1 ELSE covered
           /\ pair' = IF state = ZIG_ZAG THEN PairAfter(r.report.HAT) ELSE pair
           /\ pair_last' = IF state = ZIG_ZAG /\ command_count = 0 /\ pair.fresh > 0
                           THEN pair ELSE pair_last
           /\ entered' = IF r.state # state THEN calls + 1 ELSE entered
    /\ echoes' = ArmEchoes
    /\ kind' = "fresh"
    /\ calls' = calls + 1
    /\ replays' = 0
    /\ UNCHANGED config

GetNextReport == EchoReplay \/ DoneReport \/ FreshReport

----------------------------------------------------------------------------
(* Specifications *)

InitProgram ==
    /\ state = SYNC_CONTROLLER
    /\ echoes = 0
    /\ last_report = ZeroReport
    /\ command_count = 0
    /\ xpos = 0
    /\ ypos = 0
    /\ ReportData = ZeroReport
    /\ kind = "none"
    /\ calls = 0
    /\ replays = 0
    /\ covered = 0
    /\ img_read = NoRead
    /\ pair = NoPair
    /\ pair_last = NoPair
    /\ entered = 0

\* the two builds of the source
Init ==
    /\ ZIG_ZAG_PRINTING \in BOOLEAN
    /\ ECHOES = IF ZIG_ZAG_PRINTING THEN EchoesZigZag ELSE EchoesSimple
    /\ POLLING_MS = MinPolling
    /\ image \in 0..MaxImage
    /\ InitProgram

Next == GetNextReport

Spec == Init /\ [][Next]_vars

\* any echo factor and poll interval, either sweep, blank or inked bitmap
AnyConfigInit ==
    /\ ZIG_ZAG_PRINTING \in BOOLEAN
    /\ ECHOES \in 1..MaxEchoes
    /\ POLLING_MS \in {1, LongPolling}
    /\ image = 0
    /\ InitProgram

\* main() calls HID_Task forever, and HID_Task calls GetNextReport each time
\* the host is ready for an IN report
FairSpec == AnyConfigInit /\ [][Next]_vars /\ WF_vars(Next)

----------------------------------------------------------------------------
(* Echo/redundancy layer *)

\* some report has been computed and stored
Stored == kind # "none"

\* the next call computes a fresh report
FreshDue == echoes = 0 /\ state # DONE

\* C1 as amended: every call made between two fresh computations hands back
\* a copy of the stored fresh report, and when the next fresh computation is
\* due exactly ECHOES such replays have been made.
C1_EchoInvariant ==
    Stored =>
        /\ replays + echoes = ECHOES
        /\ kind \in {"fresh", "echo"} => ReportData = last_report
        /\ FreshDue => replays = ECHOES

C1_Witness == Stored /\ FreshDue /\ replays = ECHOES /\ kind = "echo"

\* C1 as stated: exactly ECHOES - 1 replays precede the next fresh computation.
C1_Original ==
    (Stored /\ FreshDue) => (replays = ECHOES - 1 /\ ReportData = last_report)

\* C2 as amended: a call entered with echoes > 0 decrements echoes, a call
\* entered with echoes = 0 outside DONE stores its report and sets echoes to
\* ECHOES, and a call entered with echoes = 0 in DONE leaves echoes at 0 and
\* stores nothing.
C2_Cadence ==
    [][ /\ echoes > 0 => echoes' = echoes - 1 /\ kind' = "echo"
        /\ FreshDue => echoes' = ECHOES /\ kind' = "fresh" /\ last_report' = ReportData'
        /\ (echoes = 0 /\ state = DONE) =>
               echoes' = 0 /\ kind' = "done" /\ last_report' = last_report
      ]_vars

C2_Witness == kind = "done" /\ echoes = 0 /\ state = DONE

\* C2 as stated: after every call, DONE included, echoes has been decremented
\* or reset to ECHOES.
C2_Original == kind \in {"none", "echo", "fresh"}

----------------------------------------------------------------------------
(* Controller synchronisation *)

\* the report a SYNC_CONTROLLER tick must hand back when ECHOES = 2 and
\* POLLING_MS = 8, confirm marks at c1 and c2
SyncReport(idx, c1, c2) ==
    [EmptyReport EXCEPT !.Button =
        IF idx \in {31, 62} THEN {SWITCH_L, SWITCH_R}
        ELSE IF idx \in {c1, c2} THEN {SWITCH_A}
        ELSE {}]

SyncScenario ==
    ECHOES = 2 /\ POLLING_MS = 8 /\ state = SYNC_CONTROLLER /\ echoes = 0

\* C3 as amended: with ECHOES = 2 and POLLING_MS = 8 the fresh computations
\* of SYNC_CONTROLLER with index 31 and 62 carry SWITCH_L | SWITCH_R, those
\* with index 93 and 125 carry SWITCH_A, and every other one is neutral.
C3_SyncMarks ==
    [][SyncScenario => ReportData' = SyncReport(command_count, 93, 125)]_vars

C3_Witness ==
    /\ ECHOES = 2 /\ POLLING_MS = 8 /\ state = SYNC_CONTROLLER /\ kind = "fresh"
    /\ command_count = 126 /\ ReportData.Button = {SWITCH_A}

\* C3 as stated: the confirm button is carried at index 93 and 124.
C3_Original ==
    [][SyncScenario => ReportData' = SyncReport(command_count, 93, 124)]_vars

----------------------------------------------------------------------------
(* Raster printer *)

SimpleRun == ~ZIG_ZAG_PRINTING

\* the cells of the bitmap
Grid == (0..319) \X (0..119)

\* 0 <= xpos <= 319 and 0 <= ypos <= 119
OnGrid == xpos >= 0 /\ xpos <= 319 /\ ypos >= 0 /\ ypos <= 119

\* bit (xpos % 8) of image_data[xpos/8 + ypos*40] is 1
CursorBit ==
    (image_data(image, (xpos \div 8) + ypos * 40) \div (2 ^ (xpos % 8))) % 2 = 1

InkBit == SWITCH_A \in ReportData.Button

SimpleCells == {SimpleCell(n) : n \in 0..(NumCells - 1)}

ZigZagCells == {ZigZagCell(n) : n \in 0..(NumCells - 1)}

\* what a MOVE tick does at (x, y): the HAT and the cell it leads to
RowMove(x, y) ==
    IF y % 2 = 0 /\ x < 319 THEN <<HAT_RIGHT, x + 1, y>>
    ELSE IF y % 2 = 1 /\ x > 0 THEN <<HAT_LEFT, x - 1, y>>
    ELSE <<HAT_BOTTOM, x, y + 1>>

\* C4: in the simple sweep the cells are entered in the order of SimpleCell,
\* which lists every cell of the 320 x 120 grid once: rows left to right on
\* even y, right to left on odd y, a HAT_BOTTOM move at the row end; every
\* move enters the first cell not yet covered (or leaves the grid after the
\* last one), only MOVE ticks move the cursor, the run is DONE with all cells
\* covered, and while the cursor rests on a cell the ink bit of the report
\* is the bitmap bit of that cell.
C4_RasterCoverage ==
    /\ SimpleCells = Grid
    /\ [](SimpleRun /\ state = DONE => covered = 320 * 120)
    /\ []((SimpleRun /\ state \in {MOVE, STOP} /\ OnGrid) =>
            /\ <<xpos, ypos>> = SimpleCell(covered - 1)
            /\ InkBit <=> CursorBit)
    /\ [][(SimpleRun /\ state = MOVE /\ echoes = 0) =>
            /\ <<ReportData'.HAT, xpos', ypos'>> = RowMove(xpos, ypos)
            /\ \/ covered' = covered + 1 /\ <<xpos', ypos'>> = SimpleCell(covered)
               \/ covered' = covered /\ covered = 320 * 120 /\ ypos' = 120
       ]_vars
    /\ [][(SimpleRun /\ ~(state = MOVE /\ echoes = 0)) =>
            <<xpos', ypos'>> = <<xpos, ypos>>]_vars

C4_Witness ==
    SimpleRun /\ state = DONE /\ covered = 320 * 120 /\ image = 1 /\ kind = "done"

\* C5: after a fresh computation that ends in ZIG_ZAG, MOVE or STOP the ink
\* bit is set exactly when the cursor is on the grid and the bitmap bit of
\* its cell is 1, and image_data is read at that cell's byte and nowhere
\* else; off the grid, and after a computation that ends in SYNC_CONTROLLER,
\* SYNC_POSITION or DONE, image_data is not read.
C5_Inking ==
    kind = "fresh" =>
        IF state \in {ZIG_ZAG, MOVE, STOP}
        THEN /\ InkBit <=> (OnGrid /\ CursorBit)
             /\ img_read = IF OnGrid THEN (xpos \div 8) + ypos * 40 ELSE NoRead
        ELSE img_read = NoRead

C5_Witness ==
    /\ kind = "fresh" /\ state = ZIG_ZAG /\ InkBit /\ xpos = 200 /\ ypos = 77

\* calls of GetNextReport it takes to reach DONE
FreshToDone ==
    (ms_2_count(2000) + 2) + (ms_2_count(4000) + 2)
        + (IF ZIG_ZAG_PRINTING THEN 60 * 643 ELSE 2 * 320 * 120 + 1)

CallsToDone == (FreshToDone - 1) * (ECHOES + 1) + 1

\* C6: for every echo factor and poll interval and in both sweeps, the
\* number of calls made while the run is not DONE stays below a finite
\* number fixed by the configuration, so no phase stalls, and DONE is
\* reached by exactly that many calls.
C6_Termination ==
    /\ state # DONE => calls < CallsToDone
    /\ state = DONE => calls = CallsToDone

C6_Witness == state = DONE /\ ZIG_ZAG_PRINTING /\ POLLING_MS = LongPolling

\* no button bits, HAT_CENTER, all four sticks at STICK_CENTER
IsNeutral(r) ==
    /\ r.Button = {} /\ r.HAT = HAT_CENTER
    /\ r.LX = STICK_CENTER /\ r.LY = STICK_CENTER
    /\ r.RX = STICK_CENTER /\ r.RY = STICK_CENTER

\* C7: once state is DONE it stays DONE, the cursor and command_count do not
\* change again, and every report handed back, the replays of the report of
\* the call that entered DONE included, is neutral.
C7_DoneIdle ==
    /\ [](state = DONE => IsNeutral(ReportData) /\ IsNeutral(last_report))
    /\ [][state = DONE =>
            /\ state' = DONE
            /\ <<xpos', ypos', command_count'>> = <<xpos, ypos, command_count>>
            /\ IsNeutral(ReportData')]_vars

C7_Witness == state = DONE /\ kind = "done" /\ ZIG_ZAG_PRINTING

\* the order of the phases
PhaseRank(st) ==
    CASE st = SYNC_CONTROLLER -> 0
      [] st = SYNC_POSITION -> 1
      [] st \in {ZIG_ZAG, MOVE, STOP} -> 2
      [] st = DONE -> 3

\* C8: the phase only moves forward, SYNC_CONTROLLER -> SYNC_POSITION ->
\* payload -> DONE, the payload being ZIG_ZAG alone or MOVE and STOP in
\* alternation; the zig-zag build never is in MOVE or STOP and the simple
\* build never is in ZIG_ZAG.
C8_OneWay ==
    /\ [][state' # state =>
            \/ PhaseRank(state') = PhaseRank(state) + 1
            \/ {state, state'} = {MOVE, STOP}]_vars
    /\ [][ZIG_ZAG_PRINTING' = ZIG_ZAG_PRINTING]_vars
    /\ [](state = ZIG_ZAG => ZIG_ZAG_PRINTING)
    /\ [](state \in {MOVE, STOP} => ~ZIG_ZAG_PRINTING)

C8_Witness == state = DONE /\ ZIG_ZAG_PRINTING /\ kind = "done"

\* the button masks each phase may hand back
PhaseButtons(st) ==
    CASE st = SYNC_CONTROLLER -> {{}, {SWITCH_L, SWITCH_R}, {SWITCH_A}}
      [] st = SYNC_POSITION -> {{}, {SWITCH_MINUS}}
      [] st \in {ZIG_ZAG, MOVE, STOP} -> {{}, {SWITCH_A}}
      [] st = DONE -> {{}}

\* C9: in every report handed back RX and RY are STICK_CENTER; LX and LY are
\* STICK_CENTER unless the phase is SYNC_POSITION; HAT is HAT_CENTER in the
\* sync phases and in DONE; the buttons are none, L|R or A in
\* SYNC_CONTROLLER, none or MINUS in SYNC_POSITION, none or A in the payload
\* phases, none in DONE.
C9_NeutralDefault ==
    Stored =>
        /\ ReportData.RX = STICK_CENTER /\ ReportData.RY = STICK_CENTER
        /\ state # SYNC_POSITION =>
               ReportData.LX = STICK_CENTER /\ ReportData.LY = STICK_CENTER
        /\ {ReportData.LX, ReportData.LY} \subseteq {STICK_CENTER, STICK_MIN}
        /\ state \in {SYNC_CONTROLLER, SYNC_POSITION, DONE} =>
               ReportData.HAT = HAT_CENTER
        /\ ReportData.Button \in PhaseButtons(state)

C9_Witness ==
    /\ state = SYNC_POSITION /\ kind = "echo"
    /\ ReportData.LX = STICK_MIN /\ ReportData.Button = {SWITCH_MINUS}

\* C10: in the zig-zag sweep the cells are inked in the order of ZigZagCell,
\* which lists every cell of the 320 x 120 grid once, the origin first: when
\* the run is DONE inking has been evaluated with the cursor on each of them,
\* and whenever the cursor is on a cell the ink bit is that cell's bitmap bit.
C10_ZigZagCoverage ==
    /\ ZigZagCells = Grid
    /\ [](ZIG_ZAG_PRINTING /\ state = DONE => covered = 320 * 120)
    /\ [](ZIG_ZAG_PRINTING /\ covered = 0 => state \in {SYNC_CONTROLLER, SYNC_POSITION})
    /\ []((ZIG_ZAG_PRINTING /\ state = ZIG_ZAG /\ OnGrid) => (InkBit <=> CursorBit))

C10_Witness ==
    /\ ZIG_ZAG_PRINTING /\ state = DONE /\ covered = 320 * 120 /\ image = 1
    /\ kind = "done"

----------------------------------------------------------------------------
(* Zig-zag micro-pattern *)

\* C11 as stated: a row pair, from its first move to the first move of the
\* next row pair, takes 642 fresh reports: 641 moves and 1 stop.
C11_Original ==
    pair_last.fresh > 0 =>
        pair_last.fresh = 642 /\ pair_last.moves = 641 /\ pair_last.stops = 1

\* the HAT of tick t of a row pair that started at row y0
PatternHat(t, y0) ==
    IF t = 640 THEN HAT_CENTER
    ELSE IF t \in {639, 641} THEN HAT_BOTTOM
    ELSE IF t % 2 = 1 THEN (IF y0 % 4 = 0 THEN HAT_RIGHT ELSE HAT_LEFT)
    ELSE IF t % 4 = 0 THEN HAT_BOTTOM
    ELSE HAT_TOP

\* the row the pair under way started at, when tick t is computed
PairStart(t) == IF t = 0 THEN ypos ELSE pair.y0

\* C12: every row pair starts at ypos mod 4 = 0 or 2, and the HAT of its tick
\* command_count in 0..641 is PatternHat of the tick and of that start row
\* mod 4 alone, so row pairs with the same start mod 4 give the same sequence.
C12_ZigZagPattern ==
    [][(state = ZIG_ZAG /\ echoes = 0 /\ command_count <= 641) =>
         /\ PairStart(command_count) % 4 \in {0, 2}
         /\ ReportData'.HAT = PatternHat(command_count, PairStart(command_count) % 4)
         /\ command_count' = command_count + 1
      ]_vars

C12_Witness ==
    /\ state = ZIG_ZAG /\ kind = "fresh" /\ command_count = 638
    /\ pair.y0 = 6 /\ ReportData.HAT = HAT_LEFT

\* C13: in the zig-zag sweep a fresh report never carries the direction the
\* fresh report before it carried.
C13_ZigZagDebounce ==
    [][(state = ZIG_ZAG /\ echoes = 0) =>
         (ReportData'.HAT = HAT_CENTER \/ ReportData'.HAT # last_report.HAT)]_vars

C13_Witness ==
    /\ state = ZIG_ZAG /\ kind = "fresh" /\ command_count = 1 /\ ypos = 3
    /\ ReportData.HAT = HAT_BOTTOM

----------------------------------------------------------------------------
(* Simple sweep debounce, completion *)

Directions == {HAT_TOP, HAT_RIGHT, HAT_BOTTOM, HAT_LEFT}

\* C14: in the simple sweep the fresh reports alternate: a MOVE tick carries
\* a direction and follows a report with HAT_CENTER, a STOP tick carries
\* HAT_CENTER and leaves the cursor where it is, and the fresh report after
\* one with a direction always is such a STOP tick.
C14_SimpleDebounce ==
    [][(SimpleRun /\ echoes = 0 /\ state \in {MOVE, STOP}) =>
         /\ state = MOVE =>
                /\ ReportData'.HAT \in Directions
                /\ last_report.HAT = HAT_CENTER
                /\ state' = STOP
         /\ state = STOP =>
                /\ ReportData'.HAT = HAT_CENTER
                /\ <<xpos', ypos'>> = <<xpos, ypos>>
                /\ state' \in {MOVE, DONE}
         /\ last_report.HAT # HAT_CENTER => state = STOP
      ]_vars

C14_Witness ==
    /\ SimpleRun /\ state = MOVE /\ kind = "fresh"
    /\ ReportData.HAT = HAT_CENTER /\ xpos = 5 /\ ypos = 1

\* C15: in both sweeps a fresh computation enters DONE exactly when it starts
\* with ypos > 119; such a computation hands back HAT_CENTER without the ink
\* bit and leaves the cursor where it is, so DONE implies ypos > 119 and no
\* move is issued from beyond the last row.
C15_Completion ==
    /\ [](state = DONE => ypos > 119)
    /\ [][(echoes = 0 /\ state # DONE) =>
             /\ state' = DONE <=> ypos > 119
             /\ ypos > 119 =>
                    /\ ReportData'.HAT = HAT_CENTER
                    /\ SWITCH_A \notin ReportData'.Button
                    /\ <<xpos', ypos'>> = <<xpos, ypos>>
          ]_vars

C15_Witness == state = DONE /\ kind = "fresh" /\ ypos = 120 /\ SimpleRun

----------------------------------------------------------------------------
(* Timing of the sync phases *)

Abs(n) == IF n < 0 THEN 0 - n ELSE n

\* Elapsed time of n calls at the 8 ms poll interval of the POLLING_MS = 8 builds
ElapsedMs(n) == n * 8

\* One fresh report plus its echoes
LogicalTickMs == ElapsedMs(ECHOES + 1)

\* C16: as stated, the call that leaves SYNC_CONTROLLER comes within one
\* logical tick of 2000 ms after start, and the call that leaves SYNC_POSITION
\* within one logical tick of 4000 ms after that phase was entered, time being
\* the number of calls times 8 ms.
C16_Original ==
    [][/\ (state = SYNC_CONTROLLER /\ state' # SYNC_CONTROLLER) =>
            Abs(ElapsedMs(calls') - 2000) <= LogicalTickMs
       /\ (state = SYNC_POSITION /\ state' # SYNC_POSITION) =>
            Abs(ElapsedMs(calls' - entered) - 4000) <= LogicalTickMs
      ]_vars

----------------------------------------------------------------------------
(* SYNC_POSITION *)

\* C17: the cursor is (0,0) throughout both sync phases; a fresh computation
\* of SYNC_POSITION with command_count <= ms_2_count(4000) stays in the phase
\* and returns LX = LY = STICK_MIN, with SWITCH_MINUS set exactly when
\* command_count is ms_2_count(1500) or ms_2_count(3000); the one with a larger
\* command_count sets xpos = ypos = 0 and command_count = 0 and enters ZIG_ZAG
\* in the zig-zag build and STOP in the simple build.
C17_SyncPosition ==
    /\ [](state \in {SYNC_CONTROLLER, SYNC_POSITION} => xpos = 0 /\ ypos = 0)
    /\ [][(state = SYNC_POSITION /\ echoes = 0) =>
             IF command_count <= ms_2_count(4000)
             THEN /\ state' = SYNC_POSITION
                  /\ ReportData'.LX = STICK_MIN
                  /\ ReportData'.LY = STICK_MIN
                  /\ SWITCH_MINUS \in ReportData'.Button <=>
                        command_count \in {ms_2_count(1500), ms_2_count(3000)}
             ELSE /\ xpos' = 0 /\ ypos' = 0 /\ command_count' = 0
                  /\ state' = IF ZIG_ZAG_PRINTING THEN ZIG_ZAG ELSE STOP
          ]_vars

C17_Witness ==
    /\ state = SYNC_POSITION /\ kind = "fresh"
    /\ command_count = ms_2_count(3000) + 1
    /\ ReportData.LX = STICK_MIN /\ SWITCH_MINUS \in ReportData.Button

----------------------------------------------------------------------------
(* Cursor and report *)

RightHats == {HAT_TOP_RIGHT, HAT_RIGHT, HAT_BOTTOM_RIGHT}
LeftHats == {HAT_BOTTOM_LEFT, HAT_LEFT, HAT_TOP_LEFT}
TopHats == {HAT_TOP_LEFT, HAT_TOP, HAT_TOP_RIGHT}
BottomHats == {HAT_BOTTOM_RIGHT, HAT_BOTTOM, HAT_BOTTOM_LEFT}

\* +1 for a hat of the set plus, -1 for one of the set minus, otherwise 0
Delta(hat, plus, minus) ==
    (IF hat \in plus THEN 1 ELSE 0) - (IF hat \in minus THEN 1 ELSE 0)

\* C18: on every fresh computation xpos changes by +1 for a HAT with a right
\* component and -1 for one with a left component, ypos by -1 for a top
\* component and +1 for a bottom component, and neither changes for
\* HAT_CENTER; the HAT is one of the four straight directions or HAT_CENTER,
\* so the cursor moves by at most one cell.
C18_CursorFollowsHat ==
    [][(echoes = 0 /\ state # DONE) =>
         /\ xpos' = xpos + Delta(ReportData'.HAT, RightHats, LeftHats)
         /\ ypos' = ypos + Delta(ReportData'.HAT, BottomHats, TopHats)
         /\ ReportData'.HAT \in {HAT_TOP, HAT_RIGHT, HAT_BOTTOM, HAT_LEFT, HAT_CENTER}
         /\ Abs(xpos' - xpos) + Abs(ypos' - ypos) <= 1
      ]_vars

C18_Witness ==
    /\ kind = "fresh" /\ state = STOP /\ ReportData.HAT = HAT_LEFT
    /\ xpos = 100 /\ ypos = 1

----------------------------------------------------------------------------
(* Echo replay *)

\* C19: a call entered with echoes > 0 returns a copy of last_report,
\* decrements echoes by one and leaves state, command_count, xpos, ypos and
\* last_report as they are; the cursor and the phase change only in calls
\* entered with echoes = 0.
C19_EchoFrame ==
    /\ [][echoes > 0 =>
             /\ ReportData' = last_report
             /\ echoes' = echoes - 1
             /\ UNCHANGED <<state, command_count, xpos, ypos, last_report>>
          ]_vars
    /\ [][<<xpos', ypos', state'>> # <<xpos, ypos, state>> => echoes = 0]_vars

C19_Witness ==
    /\ kind = "echo" /\ echoes = 1 /\ state = STOP
    /\ ReportData.HAT = HAT_RIGHT /\ ReportData = last_report /\ xpos = 7

----------------------------------------------------------------------------
(* Cursor bounds *)

\* C20: in every reachable state of either build 0 <= xpos <= 319 and
\* 0 <= ypos <= 120, and ypos = 120 only once the last move has been made
\* (all 320 x 120 cells covered, the sweep about to enter DONE or in it);
\* every image_data index read lies in 0..4799; a fresh HAT_RIGHT is issued
\* only left of column 319, a fresh HAT_LEFT only right of column 0, and a
\* fresh HAT_TOP never on row 0.
C20_CursorBounds ==
    /\ [](/\ 0 <= xpos /\ xpos <= 319
          /\ 0 <= ypos /\ ypos <= 120
          /\ ypos = 120 =>
                /\ covered = 320 * 120
                /\ \/ state = DONE
                   \/ state = STOP /\ ~ZIG_ZAG_PRINTING
                   \/ state = ZIG_ZAG /\ command_count = 642
          /\ img_read # NoRead => (0 <= img_read /\ img_read <= 4799))
    /\ [][(echoes = 0 /\ state # DONE) =>
             /\ ReportData'.HAT = HAT_RIGHT => xpos < 319
             /\ ReportData'.HAT = HAT_LEFT => xpos > 0
             /\ ReportData'.HAT = HAT_TOP => ypos > 0
          ]_vars

C20_Witness ==
    /\ ypos = 120 /\ state = ZIG_ZAG /\ command_count = 642 /\ kind = "fresh"
    /\ ReportData.HAT = HAT_BOTTOM /\ img_read = NoRead

====
